---- MODULE Spec2Model ----
(***************************************************************************)
(* Book Management REST API (server.js): the in-memory collection `books`, *)
(* the id counter `nextId`, the validation helpers and the route handlers  *)
(* that read and mutate them.                                              *)
(*                                                                         *)
(* A JavaScript string is a sequence of one-character strings.  A          *)
(* JavaScript value of a request body field is a record                    *)
(*   [type, num, str]                                                      *)
(* with type one of "undefined", "null", "number", "string".               *)
(* A timestamp is the clock's millisecond count; toISOString() is          *)
(* injective on it, so equality of two ISO strings is equality of the      *)
(* two counts.                                                             *)
(***************************************************************************)
EXTENDS Integers, Sequences, FiniteSets

VARIABLES
    books,        \* the collection (server.js: let books)
    nextId,       \* the id counter (server.js: let nextId)
    clock,        \* the external clock, in milliseconds
    req,          \* the request being answered
    resp,         \* the response in flight to the client
    issuedEver,   \* history: the ids issued since the process started
    issuedSince,  \* history: the ids issued since the last DELETE /books
    vTitle,       \* validateBookData on its own: the arguments,
    vAuthor,
    vResult,      \* the returned value
    vPc           \* and the position of the call

vars == <<books, nextId, clock, req, resp, issuedEver, issuedSince,
          vTitle, vAuthor, vResult, vPc>>

storeVars == <<books, nextId, clock, req, resp, issuedEver, issuedSince>>

validatorVars == <<vTitle, vAuthor, vResult, vPc>>

(***************************************************************************)
(* Bounds of the model.                                                    *)
(***************************************************************************)
\* POST /books is explored while nextId <= MaxId.
MaxId == 3

\* The external clock is explored up to MaxClock milliseconds.
MaxClock == 1

(***************************************************************************)
(* JavaScript values and strings.                                          *)
(***************************************************************************)
Str(s) == [type |-> "string", num |-> 0, str |-> s]

Num(n) == [type |-> "number", num |-> n, str |-> <<>>]

Undefined == [type |-> "undefined", num |-> 0, str |-> <<>>]

Null == [type |-> "null", num |-> 0, str |-> <<>>]

\* typeof v === "string"
IsString(v) == v.type = "string"

\* !v is false: undefined, null, 0 and "" are falsy.
Truthy(v) ==
    CASE v.type = "undefined" -> FALSE
      [] v.type = "null" -> FALSE
      [] v.type = "number" -> v.num # 0
      [] v.type = "string" -> v.str # <<>>

Whitespace == {" "}

RECURSIVE trimStart(_)
trimStart(s) ==
    IF s = <<>> THEN s
    ELSE IF Head(s) \in Whitespace THEN trimStart(Tail(s)) ELSE s

RECURSIVE trimEnd(_)
trimEnd(s) ==
    IF s = <<>> THEN s
    ELSE IF s[Len(s)] \in Whitespace THEN trimEnd(SubSeq(s, 1, Len(s) - 1)) ELSE s

\* A trim that strips nothing.
trim_NoOp(s) == s

\* String.prototype.trim
trim(s) == trimEnd(trimStart(s))

LowerChar(c) ==
    CASE c = "A" -> "a"
      [] c = "B" -> "b"
      [] OTHER -> c

\* String.prototype.toLowerCase
toLowerCase(s) == [i \in 1..Len(s) |-> LowerChar(s[i])]

\* String.prototype.includes: q occurs in s as a contiguous substring.
includes(s, q) == \E i \in 0..(Len(s) - Len(q)) : SubSeq(s, i + 1, i + Len(q)) = q

DigitChars == <<"0", "1", "2", "3", "4", "5", "6", "7", "8", "9">>

IsDigit(c) == \E i \in 1..10 : DigitChars[i] = c

DigitVal(c) == (CHOOSE i \in 1..10 : DigitChars[i] = c) - 1

RECURSIVE DigitPrefix(_)
DigitPrefix(s) ==
    IF s = <<>> \/ ~IsDigit(Head(s)) THEN <<>>
    ELSE <<Head(s)>> \o DigitPrefix(Tail(s))

RECURSIVE DigitsValue(_, _)
DigitsValue(ds, acc) ==
    IF ds = <<>> THEN acc
    ELSE DigitsValue(Tail(ds), 10 * acc + DigitVal(Head(ds)))

NaN == [nan |-> TRUE, val |-> 0]

\* parseInt(raw) on a decimal path parameter: leading whitespace is skipped,
\* an optional sign is read, then the longest run of digits; no digit gives NaN.
parseInt(raw) ==
    LET s == trimStart(raw)
        signed == s # <<>> /\ Head(s) \in {"-", "+"}
        neg == s # <<>> /\ Head(s) = "-"
        ds == DigitPrefix(IF signed THEN Tail(s) ELSE s)
    IN  IF ds = <<>> THEN NaN
        ELSE [nan |-> FALSE,
              val |-> IF neg THEN 0 - DigitsValue(ds, 0) ELSE DigitsValue(ds, 0)]

isNaN(n) == n.nan

(***************************************************************************)
(* Inputs of the requests.                                                 *)
(***************************************************************************)
\* Body fields of the requests: absent, a falsy non-string, the empty string,
\* a whitespace-only string, a string that trimming changes, a trimmed string.
Values ==
    { Undefined, Num(0),
      Str(<<>>), Str(<<" ">>), Str(<<" ", "A", " ">>), Str(<<"b">>) }

\* Arguments of validateBookData on its own: null and a truthy non-string too.
ValidatorValues == Values \cup { Null, Num(7) }

\* Path parameters :id (a path segment is never empty): not a number, zero,
\* and the ids the counter can have issued.
RawIds == { <<DigitChars[i + 1]>> : i \in 0..MaxId } \cup { <<"x">> }

\* Path parameters :query.
Queries == { <<" ">>, <<"a">>, <<"z">> }

\* A parsed request: the route, the path parameter and the body's fields.
Request(op, param, title, author) ==
    [op |-> op, param |-> param, title |-> title, author |-> author]

NoRequest == Request("none", <<>>, Undefined, Undefined)

(***************************************************************************)
(* Responses.  `data` models the JSON member of that name: a sequence for  *)
(* an array, a record for a single object, NoData when the member is not   *)
(* sent.                                                                   *)
(***************************************************************************)
NoData == <<>>

Response(op, status, error, errors, count, updatedFields, data) ==
    [op |-> op, status |-> status, error |-> error, errors |-> errors,
     count |-> count, updatedFields |-> updatedFields, data |-> data]

Failure(op, status, error) == Response(op, status, error, <<>>, 0, <<>>, NoData)

ErrIdFormat == "Invalid book ID format. ID must be a number."

ErrIdPositive == "Book ID must be a positive number."

\* `Book with ID ${id} not found.`, without the id.
ErrNotFound == "Book not found."

ErrNoFields == "Provide at least one field to update (title or author)."

ErrEmptyQuery == "Search query cannot be empty"

NoResponse == Failure("none", 0, "")

(***************************************************************************)
(* Helper functions.                                                       *)
(***************************************************************************)
Book(id, title, author, createdAt, updatedAt) ==
    [id |-> id, title |-> title, author |-> author,
     createdAt |-> createdAt, updatedAt |-> updatedAt]

\* Array.prototype.findIndex with the predicate book.id === id; positions are
\* counted from 1 and -1 is "no such element".
findIndex(bks, id) ==
    IF \E i \in 1..Len(bks) : bks[i].id = id
    THEN CHOOSE i \in 1..Len(bks) :
            /\ bks[i].id = id
            /\ \A j \in 1..(i - 1) : bks[j].id # id
    ELSE -1

\* findBookById: null is [found |-> FALSE], otherwise the index of the book.
findBookById(bks, id) ==
    LET index == findIndex(bks, id)
    IN  [found |-> index # -1, index |-> index]

\* A validateBookData that never looks at the author's content.
validateBookData_TitleOnly(title, author) ==
    IF title = Undefined \/ author = Undefined
    THEN [isValid |-> FALSE, errors |-> <<"Title and author are required fields">>]
    ELSE LET e1 == IF ~IsString(title) THEN <<"Title must be a string">> ELSE <<>>
             e3 == IF IsString(title) /\ trim(title.str) = <<>>
                   THEN <<"Title cannot be empty">> ELSE <<>>
             errors == e1 \o e3
         IN  [isValid |-> Len(errors) = 0, errors |-> errors]

validateBookData(title, author) ==
    IF title = Undefined \/ author = Undefined
    THEN [isValid |-> FALSE, errors |-> <<"Title and author are required fields">>]
    ELSE LET e1 == IF ~IsString(title) THEN <<"Title must be a string">> ELSE <<>>
             e2 == IF ~IsString(author) THEN <<"Author must be a string">> ELSE <<>>
             e3 == IF IsString(title) /\ trim(title.str) = <<>>
                   THEN <<"Title cannot be empty">> ELSE <<>>
             e4 == IF IsString(author) /\ trim(author.str) = <<>>
                   THEN <<"Author cannot be empty">> ELSE <<>>
             errors == e1 \o e2 \o e3 \o e4
         IN  [isValid |-> Len(errors) = 0, errors |-> errors]

\* A splice that removes the last element whatever the index.
splice_Last(bks, index) == SubSeq(bks, 1, Len(bks) - 1)

\* Array.prototype.splice(index, 1)
splice(bks, index) == SubSeq(bks, 1, index - 1) \o SubSeq(bks, index + 1, Len(bks))

\* What a handler leaves behind: the collection, the counter and the response.
Result(bks, nid, r) == [books |-> bks, nextId |-> nid, resp |-> r]

(***************************************************************************)
(* Route handlers, as functions of the store and the parsed request.       *)
(***************************************************************************)
\* GET /books
HandleGetBooks(bks, nid) ==
    Result(bks, nid, Response("GET /books", 200, "", <<>>, Len(bks), <<>>, bks))

\* GET /books/:id
HandleGetBook(bks, nid, rawId) ==
    LET op == "GET /books/:id"
        id == parseInt(rawId)
        result == findBookById(bks, id.val)
    IN  IF isNaN(id) THEN Result(bks, nid, Failure(op, 400, ErrIdFormat))
        ELSE IF id.val <= 0 THEN Result(bks, nid, Failure(op, 400, ErrIdPositive))
        ELSE IF ~result.found THEN Result(bks, nid, Failure(op, 404, ErrNotFound))
        ELSE Result(bks, nid, Response(op, 200, "", <<>>, 0, <<>>, bks[result.index]))

\* A POST /books that leaves nextId as it was.
HandlePostBook_NoIncrement(bks, nid, title, author, t1, t2) ==
    LET op == "POST /books"
        validation == validateBookData(title, author)
        newBook == Book(nid, trim(title.str), trim(author.str), t1, t2)
    IN  IF ~validation.isValid
        THEN Result(bks, nid, Response(op, 400, "", validation.errors, 0, <<>>, NoData))
        ELSE Result(Append(bks, newBook), nid,
                    Response(op, 201, "", <<>>, 0, <<>>, newBook))

\* POST /books; t1 and t2 are what the two reads of the clock return.
HandlePostBook(bks, nid, title, author, t1, t2) ==
    LET op == "POST /books"
        validation == validateBookData(title, author)
        newBook == Book(nid, trim(title.str), trim(author.str), t1, t2)
    IN  IF ~validation.isValid
        THEN Result(bks, nid, Response(op, 400, "", validation.errors, 0, <<>>, NoData))
        ELSE Result(Append(bks, newBook), nid + 1,
                    Response(op, 201, "", <<>>, 0, <<>>, newBook))

\* Lines 266-281 once the title has passed its checks: the title is written.
WithTitle(bks, i, title) ==
    IF title # Undefined THEN [bks EXCEPT ![i].title = trim(title.str)] ELSE bks

\* A write of the author that reaches every record.
WithAuthor_AllRecords(bks, i, author) ==
    IF author # Undefined
    THEN [j \in 1..Len(bks) |-> [bks[j] EXCEPT !.author = trim(author.str)]]
    ELSE bks

\* Lines 284-299 once the author has passed its checks: the author is written.
WithAuthor(bks, i, author) ==
    IF author # Undefined THEN [bks EXCEPT ![i].author = trim(author.str)] ELSE bks

\* PUT /books/:id; now is what the read of the clock returns.  The title is
\* written into the collection before the author is looked at.
HandlePutBook(bks, nid, rawId, title, author, now) ==
    LET op == "PUT /books/:id"
        id == parseInt(rawId)
        result == findBookById(bks, id.val)
        i == result.index
        withTitle == WithTitle(bks, i, title)
        fields1 == IF title # Undefined THEN <<"title">> ELSE <<>>
        withAuthor == WithAuthor(withTitle, i, author)
        updatedFields == IF author # Undefined THEN Append(fields1, "author") ELSE fields1
        updated == [withAuthor EXCEPT ![i].updatedAt = now]
    IN  IF isNaN(id) THEN Result(bks, nid, Failure(op, 400, ErrIdFormat))
        ELSE IF id.val <= 0 THEN Result(bks, nid, Failure(op, 400, ErrIdPositive))
        ELSE IF ~result.found THEN Result(bks, nid, Failure(op, 404, ErrNotFound))
        ELSE IF ~Truthy(title) /\ ~Truthy(author)
             THEN Result(bks, nid, Failure(op, 400, ErrNoFields))
        ELSE IF title # Undefined /\ ~IsString(title)
             THEN Result(bks, nid, Failure(op, 400, "Title must be a string."))
        ELSE IF title # Undefined /\ trim(title.str) = <<>>
             THEN Result(bks, nid, Failure(op, 400, "Title cannot be empty."))
        ELSE IF author # Undefined /\ ~IsString(author)
             THEN Result(withTitle, nid, Failure(op, 400, "Author must be a string."))
        ELSE IF author # Undefined /\ trim(author.str) = <<>>
             THEN Result(withTitle, nid, Failure(op, 400, "Author cannot be empty."))
        ELSE Result(updated, nid,
                    Response(op, 200, "", <<>>, 0, updatedFields, updated[i]))

\* DELETE /books/:id
HandleDeleteBook(bks, nid, rawId) ==
    LET op == "DELETE /books/:id"
        id == parseInt(rawId)
        result == findBookById(bks, id.val)
        deletedBook == [id |-> id.val,
                        title |-> bks[result.index].title,
                        author |-> bks[result.index].author]
    IN  IF isNaN(id) THEN Result(bks, nid, Failure(op, 400, ErrIdFormat))
        ELSE IF id.val <= 0 THEN Result(bks, nid, Failure(op, 400, ErrIdPositive))
        ELSE IF ~result.found THEN Result(bks, nid, Failure(op, 404, ErrNotFound))
        ELSE Result(splice(bks, result.index), nid,
                    Response(op, 200, "", <<>>, 0, <<>>, deletedBook))

\* A DELETE /books that resets the counter and keeps the collection.
HandleDeleteAll_KeepBooks(bks, nid) ==
    Result(bks, 1, Response("DELETE /books", 200, "", <<>>, Len(bks), <<>>, bks))

\* A DELETE /books that clears the collection and keeps the counter.
HandleDeleteAll_NoReset(bks, nid) ==
    Result(<<>>, nid, Response("DELETE /books", 200, "", <<>>, Len(bks), <<>>, bks))

\* DELETE /books
HandleDeleteAll(bks, nid) ==
    LET count == Len(bks)
        deletedBooks == bks
    IN  Result(<<>>, 1, Response("DELETE /books", 200, "", <<>>, count, <<>>, deletedBooks))

\* GET /books/search/:query
HandleSearch(bks, nid, rawQuery) ==
    LET op == "GET /books/search/:query"
        query == toLowerCase(rawQuery)
        Matches(book) == \/ includes(toLowerCase(book.title), query)
                         \/ includes(toLowerCase(book.author), query)
        results == SelectSeq(bks, Matches)
    IN  IF query = <<>> \/ trim(query) = <<>>
        THEN Result(bks, nid, Failure(op, 400, ErrEmptyQuery))
        ELSE Result(bks, nid, Response(op, 200, "", <<>>, Len(results), <<>>, results))

(***************************************************************************)
(* The server: one action per request, each running its handler to the end *)
(* (requests are handled one at a time).                                   *)
(***************************************************************************)
NotValidated == [isValid |-> FALSE, errors |-> <<>>]

Init ==
    /\ books = <<>>
    /\ nextId = 1
    /\ clock = 0
    /\ req = NoRequest
    /\ resp = NoResponse
    /\ issuedEver = {}
    /\ issuedSince = {}
    /\ vTitle = Undefined
    /\ vAuthor = Undefined
    /\ vResult = NotValidated
    /\ vPc = "idle"

\* A request is handed to its handler once the previous response has been
\* sent; the handler's result becomes the state and its response is in flight.
Apply(rq, r) ==
    /\ resp = NoResponse
    /\ req' = rq
    /\ books' = r.books
    /\ nextId' = r.nextId
    /\ resp' = r.resp
    /\ UNCHANGED validatorVars

\* The HTTP layer sends the response in flight.
Send ==
    /\ resp # NoResponse
    /\ req' = NoRequest
    /\ resp' = NoResponse
    /\ UNCHANGED <<books, nextId, clock, issuedEver, issuedSince>>
    /\ UNCHANGED validatorVars

\* The external clock advances on its own.
Tick ==
    /\ clock < MaxClock
    /\ clock' = clock + 1
    /\ UNCHANGED <<books, nextId, req, resp, issuedEver, issuedSince>>
    /\ UNCHANGED validatorVars

GetBooks ==
    /\ Apply(Request("GET /books", <<>>, Undefined, Undefined),
             HandleGetBooks(books, nextId))
    /\ UNCHANGED <<clock, issuedEver, issuedSince>>

GetBook ==
    \E rawId \in RawIds :
        /\ Apply(Request("GET /books/:id", rawId, Undefined, Undefined),
                 HandleGetBook(books, nextId, rawId))
        /\ UNCHANGED <<clock, issuedEver, issuedSince>>

\* createdAt reads the clock, then updatedAt reads it again: the clock may
\* have advanced in between.  Inserts are explored while nextId <= MaxId.
PostBook ==
    \E title \in Values, author \in Values, t2 \in clock..MaxClock :
        LET r == HandlePostBook(books, nextId, title, author, clock, t2)
            created == r.resp.status = 201
        IN  /\ Apply(Request("POST /books", <<>>, title, author), r)
            /\ r.nextId <= MaxId + 1
            /\ clock' = IF created THEN t2 ELSE clock
            /\ issuedEver' = IF created
                             THEN issuedEver \cup {r.resp.data.id} ELSE issuedEver
            /\ issuedSince' = IF created
                              THEN issuedSince \cup {r.resp.data.id} ELSE issuedSince

PutBook ==
    \E rawId \in RawIds, title \in Values, author \in Values :
        /\ Apply(Request("PUT /books/:id", rawId, title, author),
                 HandlePutBook(books, nextId, rawId, title, author, clock))
        /\ UNCHANGED <<clock, issuedEver, issuedSince>>

DeleteBook ==
    \E rawId \in RawIds :
        /\ Apply(Request("DELETE /books/:id", rawId, Undefined, Undefined),
                 HandleDeleteBook(books, nextId, rawId))
        /\ UNCHANGED <<clock, issuedEver, issuedSince>>

DeleteAllBooks ==
    /\ Apply(Request("DELETE /books", <<>>, Undefined, Undefined),
             HandleDeleteAll(books, nextId))
    /\ issuedSince' = {}
    /\ UNCHANGED <<clock, issuedEver>>

SearchBooks ==
    \E rawQuery \in Queries :
        /\ Apply(Request("GET /books/search/:query", rawQuery, Undefined, Undefined),
                 HandleSearch(books, nextId, rawQuery))
        /\ UNCHANGED <<clock, issuedEver, issuedSince>>

Next ==
    \/ Tick
    \/ Send
    \/ GetBooks
    \/ GetBook
    \/ PostBook
    \/ PutBook
    \/ DeleteBook
    \/ DeleteAllBooks
    \/ SearchBooks

Spec == Init /\ [][Next]_vars

(***************************************************************************)
(* validateBookData on its own: every pair of field values is validated.   *)
(***************************************************************************)
InitValidate ==
    /\ books = <<>>
    /\ nextId = 1
    /\ clock = 0
    /\ req = NoRequest
    /\ resp = NoResponse
    /\ issuedEver = {}
    /\ issuedSince = {}
    /\ vTitle \in ValidatorValues
    /\ vAuthor \in ValidatorValues
    /\ vResult = NotValidated
    /\ vPc = "call"

Validate ==
    /\ vPc = "call"
    /\ vResult' = validateBookData(vTitle, vAuthor)
    /\ vPc' = "return"
    /\ UNCHANGED <<vTitle, vAuthor>>
    /\ UNCHANGED storeVars

NextValidate == Validate

SpecValidate == InitValidate /\ [][NextValidate]_vars

(***************************************************************************)
(* Properties.                                                             *)
(***************************************************************************)
\* This step hands a request to its handler.
Handled == resp = NoResponse /\ resp' # NoResponse

\* A string that is empty or made of whitespace only.
Blank(s) == \A k \in 1..Len(s) : s[k] \in Whitespace

\* A string that is not empty and has no whitespace at either end.
Trimmed(s) == Len(s) > 0 /\ s[1] \notin Whitespace /\ s[Len(s)] \notin Whitespace

\* The ids of the records of a collection, in order.
Ids(bks) == [k \in 1..Len(bks) |-> bks[k].id]

\* C1: every request answered with 400 or 404 leaves the collection and
\* nextId exactly as they were before the request.
C1_RejectedRequestChangesNothing ==
    [][(Handled /\ resp'.status \in {400, 404})
          => (books' = books /\ nextId' = nextId)]_vars

\* C2: in every reachable state nextId is strictly greater than every id
\* issued since the process started.
C2_NextIdAboveEveryIdEverIssued == \A id \in issuedEver : id < nextId

\* C2, amended: nextId is strictly greater than every id issued since the
\* last DELETE /books (since the start if there was none), and an insert is
\* never given an id already issued since then.
C2_NextIdAboveIdsSinceReset ==
    /\ [](\A id \in issuedSince : id < nextId)
    /\ [][(Handled /\ req'.op = "POST /books" /\ resp'.status = 201)
             => resp'.data.id \notin issuedSince]_vars

\* An insert has been answered after a DELETE /books that followed earlier
\* inserts, and a record has been deleted since.
C2_Witness ==
    /\ req.op = "POST /books"
    /\ resp.status = 201
    /\ issuedEver # issuedSince
    /\ Len(books) < Cardinality(issuedSince)

\* C3: in every reachable state the records of the collection have pairwise
\* distinct ids and every id is a positive integer.
C3_IdsUniqueAndPositive ==
    \A i \in 1..Len(books) :
        /\ books[i].id \in Nat
        /\ books[i].id > 0
        /\ \A j \in 1..Len(books) : i # j => books[i].id # books[j].id

\* Two records are in the collection, inserted after a DELETE /books.
C3_Witness == Len(books) >= 2 /\ issuedEver # issuedSince

\* The error a PUT body earns from the per-field rules, the title first.
PutFieldError(title, author) ==
    IF title # Undefined /\ ~IsString(title) THEN "Title must be a string."
    ELSE IF title # Undefined /\ Blank(title.str) THEN "Title cannot be empty."
    ELSE IF author # Undefined /\ ~IsString(author) THEN "Author must be a string."
    ELSE IF author # Undefined /\ Blank(author.str) THEN "Author cannot be empty."
    ELSE ""

\* C4: a PUT for an existing id is rejected as no-fields-provided exactly
\* when title and author are both absent from the body; when one is present
\* the answer is the one the per-field rules give.
C4_NoFieldsExactlyWhenBothAbsent ==
    (/\ req.op = "PUT /books/:id"
     /\ ~isNaN(parseInt(req.param))
     /\ \E k \in 1..Len(books) : books[k].id = parseInt(req.param).val)
    => IF req.title = Undefined /\ req.author = Undefined
       THEN resp.error = ErrNoFields
       ELSE resp.error = PutFieldError(req.title, req.author)

\* C5: DELETE /books answers 200, empties the collection, sets nextId to 1
\* and returns the collection as it was with its count; the k-th insert
\* after it gets id k.
C5_DeleteAllRestartsIds ==
    /\ [][(Handled /\ req'.op = "DELETE /books")
             => /\ resp'.status = 200
                /\ books' = <<>>
                /\ nextId' = 1
                /\ resp'.data = books
                /\ resp'.count = Len(books)]_vars
    /\ [][(Handled /\ req'.op = "POST /books" /\ resp'.status = 201)
             => resp'.data.id = Cardinality(issuedSince) + 1]_vars

\* The second insert after a DELETE /books that followed more inserts.
C5_Witness ==
    /\ req.op = "POST /books"
    /\ resp.status = 201
    /\ resp.data.id = 2
    /\ issuedEver # issuedSince

\* C6: the record a successful POST /books answers with has createdAt equal
\* to updatedAt.
C6_CreatedAtEqualsUpdatedAt ==
    (req.op = "POST /books" /\ resp.status = 201)
    => resp.data.createdAt = resp.data.updatedAt

\* C7: in every reachable state every record's title and author are
\* non-empty strings with no whitespace at either end.
C7_TitleAndAuthorTrimmed ==
    \A i \in 1..Len(books) : Trimmed(books[i].title) /\ Trimmed(books[i].author)

\* An update has stored a title sent with whitespace around it.
C7_Witness ==
    /\ req.op = "PUT /books/:id"
    /\ resp.status = 200
    /\ req.title = Str(<<" ", "A", " ">>)
    /\ resp.data.title = <<"A">>

\* C8: a successful DELETE /books/:id removes the one record with that id
\* and nothing else: the other records keep their content and order, nextId
\* is unchanged, and a following GET, PUT or DELETE for the id answers 404
\* and no list or search result holds the id.
C8_DeleteRemovesExactlyOne ==
    [][(Handled /\ req'.op = "DELETE /books/:id" /\ resp'.status = 200)
          => LET id == parseInt(req'.param).val
             IN  /\ \E k \in 1..Len(books) :
                       /\ books[k].id = id
                       /\ Len(books') = Len(books) - 1
                       /\ \A j \in 1..(k - 1) : books'[j] = books[j]
                       /\ \A j \in k..Len(books') : books'[j] = books[j + 1]
                 /\ nextId' = nextId
                 /\ HandleGetBook(books', nextId', req'.param).resp.status = 404
                 /\ \A t \in Values, a \in Values :
                       HandlePutBook(books', nextId', req'.param, t, a, clock').resp.status
                          = 404
                 /\ HandleDeleteBook(books', nextId', req'.param).resp.status = 404
                 /\ \A k \in 1..Len(HandleGetBooks(books', nextId').resp.data) :
                       HandleGetBooks(books', nextId').resp.data[k].id # id
                 /\ \A q \in Queries :
                       LET found == HandleSearch(books', nextId', q).resp.data
                       IN  \A k \in 1..Len(found) : found[k].id # id]_vars

\* The middle one of three records has been deleted.
C8_Witness ==
    /\ req.op = "DELETE /books/:id"
    /\ resp.status = 200
    /\ resp.data.id = 2
    /\ Ids(books) = <<1, 3>>

\* C9: a successful PUT /books/:id leaves the targeted record's id and
\* createdAt, every field absent from the body, every other record, the
\* order of the collection and nextId unchanged, and updatedFields lists
\* the fields present in the body, title before author.
C9_PutChangesOnlyPresentFields ==
    [][(Handled /\ req'.op = "PUT /books/:id" /\ resp'.status = 200)
          => LET id == parseInt(req'.param).val
                 present(v, name) == IF v # Undefined THEN <<name>> ELSE <<>>
             IN  /\ Len(books') = Len(books)
                 /\ \E i \in 1..Len(books) :
                       /\ books[i].id = id
                       /\ \A j \in 1..Len(books) : j # i => books'[j] = books[j]
                       /\ books'[i].id = books[i].id
                       /\ books'[i].createdAt = books[i].createdAt
                       /\ req'.title = Undefined => books'[i].title = books[i].title
                       /\ req'.author = Undefined => books'[i].author = books[i].author
                 /\ nextId' = nextId
                 /\ resp'.updatedFields
                       = present(req'.title, "title") \o present(req'.author, "author")]_vars

\* An update of the author alone has been answered while the collection
\* holds another record with another author.
C9_Witness ==
    /\ req.op = "PUT /books/:id"
    /\ resp.status = 200
    /\ req.title = Undefined
    /\ resp.updatedFields = <<"author">>
    /\ \E j \in 1..Len(books) :
          books[j].id # resp.data.id /\ books[j].author # resp.data.author

\* The set of the elements of a sequence.
Range(seq) == { seq[k] : k \in 1..Len(seq) }

\* C10: validateBookData answers an absent field with the one error "Title
\* and author are required fields"; otherwise it lists, for each field on
\* its own, "must be a string" for a non-string and "cannot be empty" for a
\* string that is blank, and nothing else, and is valid exactly when the
\* list is empty.
C10_ValidateBookData ==
    vPc = "return" =>
        IF vTitle = Undefined \/ vAuthor = Undefined
        THEN /\ ~vResult.isValid
             /\ vResult.errors = <<"Title and author are required fields">>
        ELSE LET expected ==
                     {e \in {"Title must be a string"} : ~IsString(vTitle)}
                       \cup {e \in {"Author must be a string"} : ~IsString(vAuthor)}
                       \cup {e \in {"Title cannot be empty"} :
                                IsString(vTitle) /\ Blank(vTitle.str)}
                       \cup {e \in {"Author cannot be empty"} :
                                IsString(vAuthor) /\ Blank(vAuthor.str)}
             IN  /\ Range(vResult.errors) = expected
                 /\ Len(vResult.errors) = Cardinality(expected)
                 /\ vResult.isValid <=> (vResult.errors = <<>>)

\* Both fields were present and both were refused.
C10_Witness == vPc = "return" /\ Len(vResult.errors) = 2
====
